---- MODULE Spec2Model ----
(***************************************************************************)
(* Model of the evaluator's array value (src/eval/array.rs) and of the     *)
(* function calling core (src/eval/func.rs).                               *)
(*                                                                         *)
(*  - Array is Arc<Vec<Value>>: a handle to reference-counted storage.     *)
(*    The storage, its strong counts and the handles are explicit, so      *)
(*    that Arc::make_mut's clone-if-shared is something a check can        *)
(*    refute.                                                              *)
(*  - Func is Arc<Repr>: an index into a table of Native / Closure / With  *)
(*    nodes.  Func::call dispatches on the node; Closure::call binds the   *)
(*    arguments, builds the sub-machine and resolves the control flow.     *)
(***************************************************************************)
EXTENDS Integers, Sequences, FiniteSets, TLC

\* ------------------------------------------------------------------------
\* Bounds of the model
\* ------------------------------------------------------------------------
MaxLen == 3          \* longest array explored
NumStore == 3        \* storage cells available to the allocator

Val == {1, 2}
Store == 1..NumStore
Handles == {"s", "a", "b", "t"}

RECURSIVE SeqsUpTo(_, _)
SeqsUpTo(S, n) ==
    IF n = 0 THEN {<<>>}
    ELSE LET shorter == SeqsUpTo(S, n - 1)
         IN  shorter \cup {Append(q, x) : q \in {r \in shorter : Len(r) = n - 1}, x \in S}

Vecs == SeqsUpTo(Val, MaxLen)

VARIABLES
    heap,      \* storage cell -> Vec<Value> held by the Arc allocation
    strong,    \* storage cell -> strong count (0 = not allocated)
    hs,        \* handle -> storage cell it points to (0 = no array)
    snap,      \* content of s when the array was created (history)
    aout       \* outcome of the last array operation

arrVars == <<heap, strong, hs, snap, aout>>

VARIABLES
    funcs,     \* the Arc<Repr> allocations: Func handle -> Native / Closure / With
    stack,     \* the machines of the calls in progress, the caller's first
    pend,      \* the Func::call that has been entered and not yet dispatched
    ev         \* what the last step of the calling core did

callVars == <<funcs, stack, pend, ev>>

vars == <<heap, strong, hs, snap, aout, funcs, stack, pend, ev>>

\* ------------------------------------------------------------------------
\* Arc<Vec<Value>> memory
\* ------------------------------------------------------------------------
Mem == [heap |-> heap, strong |-> strong, hs |-> hs]

FreeCell(m) == CHOOSE c \in Store : m.strong[c] = 0 /\ \A d \in Store : m.strong[d] = 0 => c <= d

\* Array::from_vec: Self(Arc::new(vec))
FromVec(m, h, vec) ==
    LET c == FreeCell(m)
    IN  [heap |-> [m.heap EXCEPT ![c] = vec],
         strong |-> [m.strong EXCEPT ![c] = 1],
         hs |-> [m.hs EXCEPT ![h] = c]]

\* #[derive(Clone)] on Array: Arc::clone bumps the strong count
ArrayClone(m, src, dst) ==
    [m EXCEPT !.hs[dst] = m.hs[src], !.strong[m.hs[src]] = @ + 1]

\* Dropping a handle: the allocation is freed with the last strong reference
ArrayDrop(m, h) ==
    LET c == m.hs[h]
    IN  [heap |-> IF m.strong[c] = 1 THEN [m.heap EXCEPT ![c] = <<>>] ELSE m.heap,
         strong |-> [m.strong EXCEPT ![c] = @ - 1],
         hs |-> [m.hs EXCEPT ![h] = 0]]

MakeMutInPlace(m, h) == m

\* Arc::make_mut(&mut self.0): clone the vector into a fresh allocation when
\* the storage is shared, otherwise hand out the storage itself
MakeMut(m, h) ==
    LET c == m.hs[h]
    IN  IF m.strong[c] = 1 THEN m
        ELSE LET n == FreeCell(m)
             IN  [heap |-> [m.heap EXCEPT ![n] = m.heap[c]],
                  strong |-> [m.strong EXCEPT ![c] = @ - 1, ![n] = 1],
                  hs |-> [m.hs EXCEPT ![h] = n]]

\* write through the &mut Vec<Value> that make_mut returned
Store_(m, h, vec) == [m EXCEPT !.heap[m.hs[h]] = vec]

Content(m, h) == m.heap[m.hs[h]]

\* Array::len
ArrLen(m, h) == Len(Content(m, h))

NoIdx == -1

LocateNoWrap(m, h, index) == IF index >= 0 THEN index ELSE NoIdx

\* Array::locate: usize::try_from(if index >= 0 { index } else
\* { self.len().checked_add(index)? }).ok(); NoIdx stands for None.
\* (len >= 0 and index < 0, so checked_add cannot overflow.)
Locate(m, h, index) ==
    LET r == IF index >= 0 THEN index ELSE ArrLen(m, h) + index
    IN  IF r >= 0 THEN r ELSE NoIdx

\* out_of_bounds(index, len): the message carries the index and the length
OutOfBounds(index, len) == [ok |-> FALSE, kind |-> "OutOfBounds", index |-> index, len |-> len, val |-> 0, arr |-> <<>>]

EmptyErr == [ok |-> FALSE, kind |-> "ArrayIsEmpty", index |-> 0, len |-> 0, val |-> 0, arr |-> <<>>]

OkUnit == [ok |-> TRUE, kind |-> "unit", index |-> 0, len |-> 0, val |-> 0, arr |-> <<>>]

OkVal(v) == [ok |-> TRUE, kind |-> "value", index |-> 0, len |-> 0, val |-> v, arr |-> <<>>]

OkArr(a) == [ok |-> TRUE, kind |-> "array", index |-> 0, len |-> 0, val |-> 0, arr |-> a]

NoOut == [op |-> "none", i |-> 0, j |-> 0, res |-> OkUnit]

\* ------------------------------------------------------------------------
\* Array operations: each yields the memory after the call and its result
\* ------------------------------------------------------------------------

\* Array::get
Get(m, h, index) ==
    LET i == Locate(m, h, index)
    IN  IF i # NoIdx /\ i < ArrLen(m, h)
        THEN OkVal(Content(m, h)[i + 1])
        ELSE OutOfBounds(index, ArrLen(m, h))

\* Array::get_mut followed by an assignment through the returned reference
GetMutSet(m, h, index, value) ==
    LET len == ArrLen(m, h)
        i == Locate(m, h, index)
    IN  IF i = NoIdx THEN [m |-> m, res |-> OutOfBounds(index, len)]
        ELSE LET m1 == MakeMut(m, h)
             IN  IF i < len
                 THEN [m |-> Store_(m1, h, [Content(m1, h) EXCEPT ![i + 1] = value]), res |-> OkUnit]
                 ELSE [m |-> m1, res |-> OutOfBounds(index, len)]

\* Array::push
Push(m, h, value) ==
    LET m1 == MakeMut(m, h)
    IN  [m |-> Store_(m1, h, Append(Content(m1, h), value)), res |-> OkUnit]

\* Array::pop
Pop(m, h) ==
    LET m1 == MakeMut(m, h)
        c == Content(m1, h)
    IN  IF c = <<>> THEN [m |-> m1, res |-> EmptyErr]
        ELSE [m |-> Store_(m1, h, SubSeq(c, 1, Len(c) - 1)), res |-> OkUnit]

\* Array::insert
Insert(m, h, index, value) ==
    LET len == ArrLen(m, h)
        i == Locate(m, h, index)
    IN  IF i = NoIdx \/ ~(i <= len) THEN [m |-> m, res |-> OutOfBounds(index, len)]
        ELSE LET m1 == MakeMut(m, h)
                 c == Content(m1, h)
             IN  [m |-> Store_(m1, h, SubSeq(c, 1, i) \o <<value>> \o SubSeq(c, i + 1, Len(c))),
                  res |-> OkUnit]

\* Array::remove
Remove(m, h, index) ==
    LET len == ArrLen(m, h)
        i == Locate(m, h, index)
    IN  IF i = NoIdx \/ ~(i < len) THEN [m |-> m, res |-> OutOfBounds(index, len)]
        ELSE LET m1 == MakeMut(m, h)
                 c == Content(m1, h)
             IN  [m |-> Store_(m1, h, SubSeq(c, 1, i) \o SubSeq(c, i + 2, Len(c))),
                  res |-> OkUnit]

\* impl Extend<Value> for Array
Extend(m, h, items) ==
    LET m1 == MakeMut(m, h)
    IN  Store_(m1, h, Content(m1, h) \o items)

\* impl AddAssign for Array; the right operand is the handle "t", owned by
\* the call.  Arc::try_unwrap succeeds when "t" is the only reference: the
\* vector is moved out and the allocation released.  Otherwise the elements
\* are cloned while "t" still holds its reference, which is dropped last.
AddAssign(m, h) ==
    LET items == Content(m, "t")
    IN  IF m.strong[m.hs["t"]] = 1
        THEN Extend(ArrayDrop(m, "t"), h, items)
        ELSE ArrayDrop(Extend(m, h, items), "t")

\* end = NoEnd stands for the None of slice's end: Option<i64>
NoEnd == 99

\* what slice would do without the .max(start): &self.0[start .. end] with
\* start > end panics
SliceNoFloor(m, h, start, end) ==
    LET len == ArrLen(m, h)
        s0 == Locate(m, h, start)
        e == IF end = NoEnd THEN len ELSE end
        e0 == Locate(m, h, e)
    IN  IF s0 = NoIdx \/ ~(s0 <= len) THEN OutOfBounds(start, len)
        ELSE IF e0 = NoIdx \/ ~(e0 <= len) THEN OutOfBounds(e, len)
        ELSE IF e0 < s0 THEN [OkUnit EXCEPT !.ok = FALSE, !.kind = "panic"]
        ELSE OkArr(SubSeq(Content(m, h), s0 + 1, e0))

\* Array::slice
Slice(m, h, start, end) ==
    LET len == ArrLen(m, h)
        s0 == Locate(m, h, start)
        e == IF end = NoEnd THEN len ELSE end
        e0 == Locate(m, h, e)
    IN  IF s0 = NoIdx \/ ~(s0 <= len) THEN OutOfBounds(start, len)
        ELSE IF e0 = NoIdx \/ ~(e0 <= len) THEN OutOfBounds(e, len)
        ELSE LET e1 == IF e0 >= s0 THEN e0 ELSE s0
             IN  OkArr(SubSeq(Content(m, h), s0 + 1, e1))

\* ------------------------------------------------------------------------
\* Array steps
\* ------------------------------------------------------------------------
IdxRange == (0 - (MaxLen + 1)) .. (MaxLen + 1)

Commit(m) ==
    /\ heap' = m.heap
    /\ strong' = m.strong
    /\ hs' = m.hs

Fits(m) == \A h \in {"s", "a", "b"} : m.hs[h] # 0 => ArrLen(m, h) <= MaxLen

Mutate(r, op, i) ==
    /\ Fits(r.m)
    /\ Commit(r.m)
    /\ aout' = [op |-> op, i |-> i, j |-> 0, res |-> r.res]
    /\ UNCHANGED <<snap, callVars>>

\* let a = s.clone(); let mut b = s.clone();
DoClone(h) ==
    /\ hs[h] = 0
    /\ Commit(ArrayClone(Mem, "s", h))
    /\ aout' = [op |-> "clone", i |-> 0, j |-> 0, res |-> OkUnit]
    /\ UNCHANGED <<snap, callVars>>

\* b goes out of scope
DoDrop ==
    /\ hs["b"] # 0
    /\ Commit(ArrayDrop(Mem, "b"))
    /\ aout' = [op |-> "drop", i |-> 0, j |-> 0, res |-> OkUnit]
    /\ UNCHANGED <<snap, callVars>>

DoPush(v) == hs["b"] # 0 /\ Mutate(Push(Mem, "b", v), "push", 0)

DoPop == hs["b"] # 0 /\ Mutate(Pop(Mem, "b"), "pop", 0)

DoInsert(i, v) == hs["b"] # 0 /\ Mutate(Insert(Mem, "b", i, v), "insert", i)

DoRemove(i) == hs["b"] # 0 /\ Mutate(Remove(Mem, "b", i), "remove", i)

DoGetMut(i, v) == hs["b"] # 0 /\ Mutate(GetMutSet(Mem, "b", i, v), "get_mut", i)

DoExtend(items) ==
    hs["b"] # 0 /\ Mutate([m |-> Extend(Mem, "b", items), res |-> OkUnit], "extend", 0)

\* b += Array::from_vec(items): the right operand is uniquely owned
DoAddAssignOwned(items) ==
    /\ hs["b"] # 0
    /\ Mutate([m |-> AddAssign(FromVec(Mem, "t", items), "b"), res |-> OkUnit], "add_assign", 0)

\* b += src.clone(): the right operand shares its storage with src
DoAddAssignShared(src) ==
    /\ hs["b"] # 0 /\ hs[src] # 0
    /\ Mutate([m |-> AddAssign(ArrayClone(Mem, src, "t"), "b"), res |-> OkUnit], "add_assign", 1)

DoGet(i) ==
    /\ aout' = [op |-> "get", i |-> i, j |-> 0, res |-> Get(Mem, "s", i)]
    /\ UNCHANGED <<heap, strong, hs, snap, callVars>>

DoSlice(i, j) ==
    /\ aout' = [op |-> "slice", i |-> i, j |-> j, res |-> Slice(Mem, "s", i, j)]
    /\ UNCHANGED <<heap, strong, hs, snap, callVars>>

\* ------------------------------------------------------------------------
\* Values, results and control flow of the calling core
\* ------------------------------------------------------------------------
MaxArgs == 2         \* longest argument list written at a call site
MaxClosures == 1     \* closure literals evaluated
MaxWith == 2         \* with() applications made
MaxDepth == 2        \* closure bodies under evaluation at once

NoName == "-"
NoLoc == 0
MainSource == 1
Names == {"x", "p", "r", "rest"}
ArgNames == {NoName, "p"}
Deps == {1}

Undef == [tag |-> "undef", int |-> 0, arr |-> <<>>]

IntV(n) == [tag |-> "int", int |-> n, arr |-> <<>>]

\* the value a sink is bound to: the drained arguments, names kept
ArrV(items) == [tag |-> "arr", int |-> 0, arr |-> items]

Ok(v) == [ok |-> TRUE, val |-> v, err |-> "-"]

Err(e) == [ok |-> FALSE, val |-> Undef, err |-> e]

\* Option<Flow> of a machine: None, Return(_, None), Return(_, Some(v)),
\* Break, Continue
NoFlow == [tag |-> "none", val |-> Undef]

Flows == {NoFlow, [tag |-> "return", val |-> Undef], [tag |-> "break", val |-> Undef],
          [tag |-> "continue", val |-> Undef]}
         \cup {[tag |-> "return", val |-> IntV(v)] : v \in Val}

\* what evaluating a body (or running a native) can come back with
Outcomes == {Ok(IntV(v)) : v \in Val} \cup {Err("EvalError")}

ArgItems == [name : ArgNames, value : Val]

ArgLists(n) == SeqsUpTo(ArgItems, n)

\* ------------------------------------------------------------------------
\* Args: an ordered list of (optional name, value) entries
\* ------------------------------------------------------------------------
RemoveAt(items, i) == SubSeq(items, 1, i - 1) \o SubSeq(items, i + 1, Len(items))

FirstWith(items, name) ==
    IF \E i \in 1..Len(items) : items[i].name = name
    THEN CHOOSE i \in 1..Len(items) :
            /\ items[i].name = name
            /\ \A j \in 1..(i - 1) : items[j].name # name
    ELSE 0

\* Args::expect(what): a positional argument, else the argument named what,
\* else a missing-argument error
ArgsExpect(items, what) ==
    LET i == IF FirstWith(items, NoName) # 0 THEN FirstWith(items, NoName)
             ELSE FirstWith(items, what)
    IN  IF i = 0 THEN [res |-> Err("MissingArgument"), items |-> items]
        ELSE [res |-> Ok(IntV(items[i].value)), items |-> RemoveAt(items, i)]

\* Args::named(name): only a named argument of that name
ArgsNamed(items, name) ==
    LET hits == SelectSeq(items, LAMBDA a : a.name = name)
    IN  [found |-> hits # <<>>,
         value |-> IF hits # <<>> THEN IntV(hits[Len(hits)].value) ELSE Undef,
         items |-> SelectSeq(items, LAMBDA a : a.name # name)]

\* Args::take(): drains all remaining arguments in order
ArgsTake(items) == [value |-> ArrV(items), items |-> <<>>]

\* Args::finish(): fails when an argument is left
ArgsFinish(items) == IF items = <<>> THEN Ok(Undef) ELSE Err("UnexpectedArgument")

\* ------------------------------------------------------------------------
\* Scope and machine
\* ------------------------------------------------------------------------
EmptyScope == [n \in Names |-> Undef]

\* Scope::define
Define(scope, name, value) == [scope EXCEPT ![name] = value]

\* Machine::new(ctx, route, scopes): no dependencies, no pending flow
Machine(kind, route, scope, fn, args) ==
    [kind |-> kind, route |-> route, scope |-> scope, deps |-> {}, fn |-> fn, args |-> args]

\* ------------------------------------------------------------------------
\* Func = Arc<Repr>
\* ------------------------------------------------------------------------
Param(name, hasDefault, default) == [name |-> name, hasDefault |-> hasDefault, default |-> default]

Native ==
    [kind |-> "Native", location |-> NoLoc, captured |-> EmptyScope, params |-> <<>>,
     sink |-> NoName, wrapped |-> 0, applied |-> <<>>]

Closure(location, captured, params, sink) ==
    [kind |-> "Closure", location |-> location, captured |-> captured, params |-> params,
     sink |-> sink, wrapped |-> 0, applied |-> <<>>]

With(wrapped, applied) ==
    [kind |-> "With", location |-> NoLoc, captured |-> EmptyScope, params |-> <<>>,
     sink |-> NoName, wrapped |-> wrapped, applied |-> applied]

\* the parameter lists closure literals are written with
\* (the default of p is the expression x, evaluated with the literal)
PlainShape == [params |-> <<>>, sink |-> NoName]

FullShape == [params |-> <<Param("r", FALSE, 0), Param("p", TRUE, 0)>>, sink |-> "rest"]

ParamShapes ==
    {PlainShape, FullShape, [params |-> <<>>, sink |-> "rest"],
     [params |-> <<Param("p", TRUE, 0)>>, sink |-> NoName]}

\* Func::from_closure for a literal evaluated in scope: the bindings visible
\* at that moment are the captured scope, the defaults are evaluated
ClosureLiteral(shape, location, scope) ==
    Closure(location, scope,
            [i \in 1..Len(shape.params) |->
                IF shape.params[i].hasDefault
                THEN Param(shape.params[i].name, TRUE, scope["x"].int)
                ELSE shape.params[i]],
            shape.sink)

\* ------------------------------------------------------------------------
\* Closure::call
\* ------------------------------------------------------------------------
BaseScopeOfCaller(closure, vm) == vm.scope

\* scopes.top = self.captured.clone(): the scopes of the call site are not
\* leaked into the body
BaseScope(closure, vm) == closure.captured

RECURSIVE BindParamsPositional(_, _, _)
BindParamsPositional(params, scope, items) ==
    IF params = <<>> THEN [ok |-> TRUE, scope |-> scope, items |-> items]
    ELSE LET p == Head(params)
             e == ArgsExpect(items, p.name)
         IN  IF ~p.hasDefault /\ ~e.res.ok
             THEN [ok |-> FALSE, scope |-> scope, items |-> e.items]
             ELSE BindParamsPositional(Tail(params),
                      Define(scope, p.name, IF e.res.ok THEN e.res.val ELSE IntV(p.default)),
                      e.items)

\* for (param, default) in &self.params: a parameter without default takes
\* args.expect(param)?, one with a default takes args.named(param)? or the
\* default
RECURSIVE BindParams(_, _, _)
BindParams(params, scope, items) ==
    IF params = <<>> THEN [ok |-> TRUE, scope |-> scope, items |-> items]
    ELSE LET p == Head(params)
         IN  IF ~p.hasDefault
             THEN LET e == ArgsExpect(items, p.name)
                  IN  IF ~e.res.ok THEN [ok |-> FALSE, scope |-> scope, items |-> e.items]
                      ELSE BindParams(Tail(params), Define(scope, p.name, e.res.val), e.items)
             ELSE LET n == ArgsNamed(items, p.name)
                  IN  BindParams(Tail(params),
                          Define(scope, p.name, IF n.found THEN n.value ELSE IntV(p.default)),
                          n.items)

\* if let Some(sink) = &self.sink { scopes.top.define(sink, args.take()) }
BindSink(sink, b) ==
    IF sink = NoName THEN b
    ELSE [b EXCEPT !.scope = Define(b.scope, sink, ArgsTake(b.items).value),
                   !.items = ArgsTake(b.items).items]

RouteInsideExtended(closure, vm) ==
    IF closure.location = NoLoc THEN vm.route ELSE Append(vm.route, closure.location)

\* let route = if vm.route.is_empty() { self.location.into_iter().collect() }
\*             else { vm.route.clone() }
RouteInside(closure, vm) ==
    IF vm.route = <<>>
    THEN IF closure.location = NoLoc THEN <<>> ELSE <<closure.location>>
    ELSE vm.route

ResolveFlowIgnoringReturn(result, flow) ==
    IF flow.tag \in {"break", "continue"} THEN Err("ForbiddenControlFlow") ELSE result

\* match sub.flow { Return(_, Some(explicit)) => return Ok(explicit),
\*   Return(_, None) => {}, Some(flow) => return Err(flow.forbidden()),
\*   None => {} }  result
ResolveFlow(result, flow) ==
    IF flow.tag = "return" /\ flow.val # Undef THEN Ok(flow.val)
    ELSE IF flow.tag = "return" THEN result
    ELSE IF flow.tag # "none" THEN Err("ForbiddenControlFlow")
    ELSE result

\* ------------------------------------------------------------------------
\* Func::call
\* ------------------------------------------------------------------------
SpliceBehind(applied, items) == items \o applied

\* args.items.splice(.. 0, applied.items.iter().cloned())
Splice(applied, items) == applied \o items

FinishSkipped(result, items) == result

\* let value = ...?; args.finish()?; Ok(value)
Finish(result, items) ==
    IF ~result.ok THEN result
    ELSE IF ~ArgsFinish(items).ok THEN ArgsFinish(items)
    ELSE result

\* ------------------------------------------------------------------------
\* Steps of the calling core
\* ------------------------------------------------------------------------
NoCall == [f |-> 0, args |-> <<>>, f0 |-> 0, args0 |-> <<>>]

NoEv ==
    [kind |-> "none", f |-> 0, f0 |-> 0, args0 |-> <<>>, args |-> <<>>, body |-> Ok(Undef),
     flow |-> NoFlow, cres |-> Ok(Undef), out |-> Ok(Undef), left |-> <<>>]

Top == stack[Len(stack)]

\* a call has returned and its caller has not yet taken the result
ResultPending == ev.kind \in {"native", "return", "bindfail"}

Idle == pend = NoCall /\ Len(stack) = 1 /\ ~ResultPending

CountKind(kind) == Cardinality({i \in 1..Len(funcs) : funcs[i].kind = kind})

Bodies == Cardinality({i \in 1..Len(stack) : stack[i].kind = "closure"})

RECURSIVE KeepAt(_, _)
KeepAt(items, keep) ==
    IF items = <<>> THEN <<>>
    ELSE LET n == Len(items)
             front == KeepAt(SubSeq(items, 1, n - 1), keep)
         IN  IF n \in keep THEN Append(front, items[n]) ELSE front

\* the machine of call_detached lives for the one call only
Unwind(st) == IF st[Len(st)].kind = "detached" THEN SubSeq(st, 1, Len(st) - 1) ELSE st

\* the caller assigns x in its own scope
Rebind(v) ==
    /\ Idle
    /\ stack[1].scope["x"] # IntV(v)
    /\ stack' = [stack EXCEPT ![1].scope = Define(@, "x", IntV(v))]
    /\ ev' = NoEv
    /\ UNCHANGED <<funcs, pend, arrVars>>

\* a closure literal is evaluated by the caller
DefineClosure(shape, location) ==
    /\ Idle
    /\ CountKind("Closure") < MaxClosures
    /\ funcs' = Append(funcs, ClosureLiteral(shape, location, stack[1].scope))
    /\ ev' = NoEv
    /\ UNCHANGED <<stack, pend, arrVars>>

\* Func::with
FuncWith(f, applied) ==
    /\ Idle
    /\ CountKind("With") < MaxWith
    /\ funcs' = Append(funcs, With(f, applied))
    /\ ev' = NoEv
    /\ UNCHANGED <<stack, pend, arrVars>>

\* f.call(vm, args) by the evaluator, on its own machine
CallInContext(f, args) ==
    /\ Idle
    /\ pend' = [f |-> f, args |-> args, f0 |-> f, args0 |-> args]
    /\ ev' = NoEv
    /\ UNCHANGED <<funcs, stack, arrVars>>

\* Func::call_detached: Machine::new(ctx, vec![], Scopes::new(None))
CallDetached(f, args) ==
    /\ Idle
    /\ stack' = Append(stack, Machine("detached", <<>>, EmptyScope, 0, <<>>))
    /\ pend' = [f |-> f, args |-> args, f0 |-> f, args0 |-> args]
    /\ ev' = NoEv
    /\ UNCHANGED <<funcs, arrVars>>

\* the body under evaluation calls a function on its own machine
BodyCall(f, args) ==
    /\ pend = NoCall /\ ~ResultPending
    /\ Top.kind = "closure"
    /\ Bodies < MaxDepth
    /\ pend' = [f |-> f, args |-> args, f0 |-> f, args0 |-> args]
    /\ ev' = NoEv
    /\ UNCHANGED <<funcs, stack, arrVars>>

\* Func::call, Repr::With: splice and delegate to the wrapped function
CallWith ==
    /\ pend # NoCall
    /\ funcs[pend.f].kind = "With"
    /\ pend' = [pend EXCEPT !.f = funcs[pend.f].wrapped,
                             !.args = Splice(funcs[pend.f].applied, pend.args)]
    /\ ev' = NoEv
    /\ UNCHANGED <<funcs, stack, arrVars>>

\* Func::call, Repr::Native: the native consumes the arguments it wants
\* (those at the positions in keep are left) and comes back with res
CallNative(keep, res) ==
    /\ pend # NoCall
    /\ funcs[pend.f].kind = "Native"
    /\ LET left == KeepAt(pend.args, keep)
       IN  /\ ev' = [NoEv EXCEPT !.kind = "native", !.f = pend.f, !.f0 = pend.f0,
                                  !.args0 = pend.args0, !.args = pend.args, !.body = res,
                                  !.cres = res, !.out = Finish(res, left), !.left = left]
           /\ stack' = Unwind(stack)
    /\ pend' = NoCall
    /\ UNCHANGED <<funcs, arrVars>>

\* Func::call, Repr::Closure, up to the evaluation of the body: bind the
\* arguments and build the sub-machine; a binding error returns at once
CallClosure ==
    /\ pend # NoCall
    /\ funcs[pend.f].kind = "Closure"
    /\ LET closure == funcs[pend.f]
           bound == BindParams(closure.params, BaseScope(closure, Top), pend.args)
           b == BindSink(closure.sink, bound)
       IN  IF ~bound.ok
           THEN /\ stack' = Unwind(stack)
                /\ ev' = [NoEv EXCEPT !.kind = "bindfail", !.f = pend.f, !.f0 = pend.f0,
                                       !.args0 = pend.args0, !.args = pend.args,
                                       !.cres = Err("MissingArgument"),
                                       !.out = Err("MissingArgument"), !.left = bound.items]
           ELSE /\ stack' = Append(stack, Machine("closure", RouteInside(closure, Top),
                                                  b.scope, pend.f, b.items))
                /\ ev' = [NoEv EXCEPT !.kind = "enter", !.f = pend.f, !.f0 = pend.f0,
                                       !.args0 = pend.args0, !.args = pend.args]
    /\ pend' = NoCall
    /\ UNCHANGED <<funcs, arrVars>>

\* the body comes back with result, the sub-machine holding flow and having
\* collected the dependencies d: the rest of Closure::call and of Func::call
BodyReturn(result, flow, d) ==
    /\ pend = NoCall /\ ~ResultPending
    /\ Top.kind = "closure"
    /\ LET sub == Top
           n == Len(stack) - 1
           cres == ResolveFlow(result, flow)
       IN  /\ stack' = Unwind([SubSeq(stack, 1, n) EXCEPT ![n].deps = @ \cup sub.deps \cup d])
           /\ ev' = [NoEv EXCEPT !.kind = "return", !.f = sub.fn, !.body = result,
                                  !.flow = flow, !.cres = cres,
                                  !.out = Finish(cres, sub.args), !.left = sub.args]
    /\ UNCHANGED <<funcs, pend, arrVars>>

\* the caller takes the TypResult<Value> the call came back with
ReceiveResult ==
    /\ ResultPending
    /\ ev' = NoEv
    /\ UNCHANGED <<funcs, stack, pend, arrVars>>

\* ------------------------------------------------------------------------
\* Specifications
\* ------------------------------------------------------------------------
EmptyMem == [heap |-> [c \in Store |-> <<>>], strong |-> [c \in Store |-> 0],
             hs |-> [h \in Handles |-> 0]]

ArrInit(vecs) ==
    \E vec \in vecs :
        /\ heap = FromVec(EmptyMem, "s", vec).heap
        /\ strong = FromVec(EmptyMem, "s", vec).strong
        /\ hs = FromVec(EmptyMem, "s", vec).hs
        /\ snap = vec
        /\ aout = NoOut

MainScope == Define(EmptyScope, "x", IntV(1))

CallInit(created) ==
    /\ funcs = <<Native>> \o created
    /\ stack = <<Machine("main", <<MainSource>>, MainScope, 0, <<>>)>>
    /\ pend = NoCall
    /\ ev = NoEv

\* copy-on-write arrays
InitCow == ArrInit(Vecs) /\ CallInit(<<>>)

NextCow ==
    \/ \E h \in {"a", "b"} : DoClone(h)
    \/ DoDrop
    \/ \E v \in Val : DoPush(v)
    \/ DoPop
    \/ \E i \in IdxRange, v \in Val : DoInsert(i, v)
    \/ \E i \in IdxRange : DoRemove(i)
    \/ \E i \in IdxRange, v \in Val : DoGetMut(i, v)
    \/ \E items \in Vecs : DoExtend(items)
    \/ \E items \in Vecs : DoAddAssignOwned(items)
    \/ \E src \in {"s", "a", "b"} : DoAddAssignShared(src)

SpecCow == InitCow /\ [][NextCow]_vars

\* index resolution
NextIndex ==
    \/ \E i \in IdxRange : DoGet(i)
    \/ \E i \in IdxRange, j \in IdxRange \cup {NoEnd} : DoSlice(i, j)

SpecIndex == InitCow /\ [][NextIndex]_vars

\* closure calls: binding, control flow, argument consumption
InitCall == ArrInit({<<>>}) /\ CallInit(<<>>)

NextCall ==
    \/ \E v \in Val : Rebind(v)
    \/ \E shape \in ParamShapes : DefineClosure(shape, NoLoc)
    \/ \E f \in 1..Len(funcs), a \in ArgLists(MaxArgs) : CallInContext(f, a)
    \/ \E keep \in SUBSET (1..Len(pend.args)), res \in Outcomes : CallNative(keep, res)
    \/ CallClosure
    \/ \E res \in Outcomes, flow \in Flows : BodyReturn(res, flow, {})
    \/ ReceiveResult

Spec == InitCall /\ [][NextCall]_vars

\* scopes of closure bodies, nested calls included
NextScope ==
    \/ \E v \in Val : Rebind(v)
    \/ \E shape \in ParamShapes : DefineClosure(shape, NoLoc)
    \/ \E f \in 2..Len(funcs), a \in ArgLists(1) : CallInContext(f, a)
    \/ \E f \in 2..Len(funcs), a \in ArgLists(1) : BodyCall(f, a)
    \/ CallClosure
    \/ \E res \in Outcomes : BodyReturn(res, NoFlow, {})
    \/ ReceiveResult

SpecScope == InitCall /\ [][NextScope]_vars

\* partial application
InitWith == ArrInit({<<>>}) /\ CallInit(<<ClosureLiteral(FullShape, NoLoc, MainScope)>>)

NextWith ==
    \/ \E f \in 1..Len(funcs), a \in ArgLists(1) : FuncWith(f, a)
    \/ \E f \in 1..Len(funcs), a \in ArgLists(1) : CallInContext(f, a)
    \/ CallWith
    \/ \E keep \in {{}, 1..Len(pend.args)}, res \in Outcomes : CallNative(keep, res)
    \/ CallClosure
    \/ \E res \in Outcomes : BodyReturn(res, NoFlow, {})
    \/ ReceiveResult

SpecWith == InitWith /\ [][NextWith]_vars

\* routes of nested calls
InitRoute ==
    /\ ArrInit({<<>>})
    /\ CallInit(<<ClosureLiteral(PlainShape, NoLoc, MainScope),
                   ClosureLiteral(PlainShape, 2, MainScope)>>)

NextRoute ==
    \/ \E f \in 2..Len(funcs) : CallInContext(f, <<>>)
    \/ \E f \in 2..Len(funcs) : CallDetached(f, <<>>)
    \/ \E f \in 2..Len(funcs) : BodyCall(f, <<>>)
    \/ CallClosure
    \/ \E res \in Outcomes, flow \in Flows, d \in SUBSET Deps : BodyReturn(res, flow, d)
    \/ ReceiveResult

SpecRoute == InitRoute /\ [][NextRoute]_vars

\* ------------------------------------------------------------------------
\* Properties
\* ------------------------------------------------------------------------

\* C1: copy-on-write isolation.  Whatever is done through b, and whether it
\* succeeds or fails, the content seen through s is the content s was created
\* with, and a handle a cloned from s equals s.
CowIsolation ==
    /\ Content(Mem, "s") = snap
    /\ hs["a"] # 0 => Content(Mem, "a") = Content(Mem, "s")

\* b was cloned from s, has been pushed to and now differs from s and a
CowIsolationWitness ==
    /\ hs["a"] # 0 /\ hs["b"] # 0
    /\ aout.op = "push"
    /\ Content(Mem, "b") = Append(snap, 1)
    /\ hs["b"] # hs["s"]

\* C5: signed index resolution of get.  get(i) is the element at i for
\* 0 <= i < len, the element at len + i for -len <= i < 0, and otherwise the
\* out-of-bounds error reporting i and len; so get(i) = get(i - len) for
\* every valid non-negative i.
GetResolvesSigned ==
    LET c == Content(Mem, "s")
        len == Len(c)
    IN  /\ aout.op = "get" =>
              /\ (0 <= aout.i /\ aout.i < len) => aout.res = OkVal(c[aout.i + 1])
              /\ (0 - len <= aout.i /\ aout.i < 0) => aout.res = OkVal(c[len + aout.i + 1])
              /\ (aout.i >= len \/ aout.i < 0 - len) => aout.res = OutOfBounds(aout.i, len)
        /\ \A i \in 0..(len - 1) : Get(Mem, "s", i) = Get(Mem, "s", i - len)

\* get with a negative index found an element
GetResolvesSignedWitness ==
    /\ aout.op = "get"
    /\ aout.i < 0
    /\ aout.res.ok
    /\ aout.res.val = Content(Mem, "s")[Len(Content(Mem, "s")) + aout.i + 1]

\* C6: the end of a slice is floored at its start.  With a' and b' the
\* resolved start and end (the end defaulting to len), slice fails with
\* out-of-bounds exactly when a' or b' is outside [0, len], and otherwise
\* yields the elements at [a', max(a', b')): empty when b' < a', never an
\* error.
SliceFloorsEnd ==
    LET c == Content(Mem, "s")
        len == Len(c)
        a == IF aout.i >= 0 THEN aout.i ELSE len + aout.i
        e == IF aout.j = NoEnd THEN len ELSE aout.j
        b == IF e >= 0 THEN e ELSE len + e
        top == IF b > a THEN b ELSE a
    IN  aout.op = "slice" =>
            IF a \in 0..len /\ b \in 0..len
            THEN aout.res = OkArr([k \in 1..(top - a) |-> c[a + k]])
            ELSE ~aout.res.ok /\ aout.res.kind = "OutOfBounds" /\ aout.res.len = len
                 /\ aout.res.index = (IF a \in 0..len THEN e ELSE aout.i)

\* a slice whose end resolves before its in-range start came back empty
SliceFloorsEndWitness ==
    /\ aout.op = "slice"
    /\ aout.i = 2 /\ aout.j = -3
    /\ Len(Content(Mem, "s")) = 3
    /\ aout.res = OkArr(<<>>)

\* C2: capture at definition.  The body of a called closure is evaluated in
\* a scope that holds the closure's captured snapshot for every name that is
\* not a parameter or the sink of the closure, whatever the caller's scope
\* holds at the time of the call.
CaptureAtDefinition ==
    \A i \in 1..Len(stack) :
        stack[i].kind = "closure" =>
            LET closure == funcs[stack[i].fn]
                bound == {closure.params[k].name : k \in 1..Len(closure.params)} \cup {closure.sink}
            IN  \A n \in Names \ bound : stack[i].scope[n] = closure.captured[n]

\* a closure defined while x = 1 runs its body with x = 1 after the caller
\* has rebound x = 2
CaptureAtDefinitionWitness ==
    /\ Len(stack) = 2 /\ Top.kind = "closure"
    /\ stack[1].scope["x"] = IntV(2)
    /\ Top.scope["x"] = IntV(1)

\* C3: binding of a defaulted parameter.  When the body of a closure is
\* entered, a parameter p with a default holds the default if the call gave
\* no argument named p (positional arguments or not), and the value of an
\* argument named p otherwise.
DefaultedParameterBinding ==
    ev.kind = "enter" =>
        LET closure == funcs[ev.f]
        IN  \A k \in 1..Len(closure.params) :
                closure.params[k].hasDefault =>
                    LET name == closure.params[k].name
                        named == {j \in 1..Len(ev.args) : ev.args[j].name = name}
                    IN  IF named = {}
                        THEN Top.scope[name] = IntV(closure.params[k].default)
                        ELSE \E j \in named : Top.scope[name] = IntV(ev.args[j].value)

\* a call with one positional argument and no named one left p at its
\* default, which differs from the positional value
DefaultedParameterBindingWitness ==
    /\ ev.kind = "enter"
    /\ funcs[ev.f].params = <<Param("p", TRUE, 1)>>
    /\ ev.args = <<[name |-> NoName, value |-> 2]>>
    /\ Top.scope["p"] = IntV(1)

\* the arguments pre-applied along the chain of with() that made f
RECURSIVE PreApplied(_)
PreApplied(f) ==
    IF funcs[f].kind = "With" THEN PreApplied(funcs[f].wrapped) \o funcs[f].applied ELSE <<>>

\* the function at the bottom of the chain of with() that made f
RECURSIVE Innermost(_)
Innermost(f) == IF funcs[f].kind = "With" THEN Innermost(funcs[f].wrapped) ELSE f

\* C4: accumulation of partial applications.  A call of
\* f.with(A1)...with(An) with arguments C reaches the innermost native or
\* closure with A1 ++ ... ++ An ++ C; no result is produced at a with()
\* level, and whether the call succeeds depends only on what the innermost
\* target leaves unconsumed.
PartialApplicationAccumulates ==
    /\ pend # NoCall =>
          /\ Innermost(pend.f) = Innermost(pend.f0)
          /\ PreApplied(pend.f) \o pend.args = PreApplied(pend.f0) \o pend.args0
    /\ ev.kind \in {"native", "enter", "bindfail"} =>
          /\ ev.f = Innermost(ev.f0)
          /\ ev.args = PreApplied(ev.f0) \o ev.args0
    /\ pend # NoCall => ~ResultPending
    /\ ev.kind = "native" =>
          ev.out = (IF ev.body.ok /\ ev.left # <<>> THEN Err("UnexpectedArgument") ELSE ev.body)

\* a native wrapped twice was called and got the inner application's
\* argument, then the outer one's, then the call's
PartialApplicationAccumulatesWitness ==
    /\ ev.kind = "native"
    /\ funcs[ev.f0].kind = "With" /\ funcs[funcs[ev.f0].wrapped].kind = "With"
    /\ funcs[funcs[ev.f0].wrapped].applied = <<[name |-> NoName, value |-> 1]>>
    /\ funcs[ev.f0].applied = <<[name |-> "p", value |-> 2]>>
    /\ ev.args0 = <<[name |-> NoName, value |-> 2]>>
    /\ ev.args = <<[name |-> NoName, value |-> 1], [name |-> "p", value |-> 2],
                   [name |-> NoName, value |-> 2]>>
    /\ ev.out.ok

\* C7: result of a closure call.  With the body evaluated, Closure::call
\* yields the explicit value of a pending return-with-value, the body's own
\* result under a bare return or no signal, and a forbidden-control-flow
\* error under any other signal.
ClosureResultResolution ==
    ev.kind = "return" =>
        /\ (ev.flow.tag = "return" /\ ev.flow.val # Undef) => ev.cres = Ok(ev.flow.val)
        /\ (ev.flow.tag = "return" /\ ev.flow.val = Undef) => ev.cres = ev.body
        /\ ev.flow.tag \in {"break", "continue"} => ev.cres = Err("ForbiddenControlFlow")
        /\ ev.flow.tag = "none" => ev.cres = ev.body

\* a body that evaluated to 1 with return 2 pending made the call yield 2
ClosureResultResolutionWitness ==
    /\ ev.kind = "return"
    /\ ev.body = Ok(IntV(1))
    /\ ev.flow = [tag |-> "return", val |-> IntV(2)]
    /\ ev.out = Ok(IntV(2))

\* C8: no failure is discarded by a closure call.  Whenever the evaluation
\* of the body fails, the call returns a failure, whatever signal is pending.
BodyFailureSurfaces == (ev.kind = "return" /\ ~ev.body.ok) => ~ev.out.ok

\* C9: full argument consumption.  Func::call on a native or a closure
\* returns a value only if no argument is left, and fails with an
\* unexpected-argument error when the target came back with a value and an
\* argument is left.  A sink takes every argument the parameters did not,
\* in order, so nothing is left for a closure with a sink.
FullArgumentConsumption ==
    /\ (ev.kind \in {"native", "return"} /\ ev.out.ok) => ev.left = <<>>
    /\ (ev.kind \in {"native", "return"} /\ ev.cres.ok /\ ev.left # <<>>) =>
            ev.out = Err("UnexpectedArgument")
    /\ (ev.kind = "return" /\ funcs[ev.f].sink # NoName) => ev.left = <<>>
    /\ (ev.kind = "enter" /\ funcs[ev.f].sink # NoName) =>
            LET closure == funcs[ev.f]
                rest == Top.scope[closure.sink]
                required == {k \in 1..Len(closure.params) : ~closure.params[k].hasDefault}
                defaulted == {closure.params[k].name : k \in 1..Len(closure.params) \ required}
                byName == {j \in 1..Len(ev.args) : ev.args[j].name \in defaulted}
            IN  /\ Top.args = <<>>
                /\ rest.tag = "arr"
                /\ \E keep \in SUBSET (1..Len(ev.args) \ byName) :
                        /\ Cardinality(keep) = Len(ev.args) - Cardinality(byName) - Cardinality(required)
                        /\ rest.arr = KeepAt(ev.args, keep)

\* a closure without a sink returned a value with an argument left, and the
\* call failed
FullArgumentConsumptionWitness ==
    /\ ev.kind = "return"
    /\ ev.cres.ok
    /\ ev.left # <<>>
    /\ ev.out = Err("UnexpectedArgument")

\* C10: route threading.  The route of a closure body is the caller's route
\* when that is not empty, and otherwise the closure's own location (or
\* nothing); nested bodies all see the non-empty route of the outermost
\* caller, and no step changes the route of a machine that stays alive.
RouteThreading ==
    /\ [](\A i \in 2..Len(stack) :
            stack[i].kind = "closure" =>
                /\ stack[i - 1].route # <<>> => stack[i].route = stack[i - 1].route
                /\ stack[i - 1].route = <<>> =>
                        stack[i].route = (IF funcs[stack[i].fn].location = NoLoc THEN <<>>
                                          ELSE <<funcs[stack[i].fn].location>>)
                /\ \A j \in 1..(i - 1) :
                        ((\A k \in (j + 1)..i : stack[k].kind = "closure") /\ stack[j].route # <<>>)
                            => stack[i].route = stack[j].route)
    /\ [][\A i \in 1..Len(stack) : i <= Len(stack') => stack'[i].route = stack[i].route]_vars

\* a closure defined in source 2 runs nested in another body and sees the
\* route of the outermost caller
RouteThreadingWitness ==
    /\ Len(stack) = 3
    /\ stack[2].kind = "closure" /\ stack[3].kind = "closure"
    /\ funcs[stack[3].fn].location = 2
    /\ stack[1].route = <<MainSource>>
    /\ stack[3].route = <<MainSource>>

====
